---------------------------- MODULE Spec2Model ----------------------------
(***************************************************************************)
(* A model of bleeps.py: the pull-based module graph (oscillators, VCA,    *)
(* Filter, Mixer, Sequencer) and the AudioOutput that drives it.           *)
(*                                                                         *)
(* Numbers.  Python floats are modelled in fixed point:                    *)
(*   - a sample, gain or amplitude x is the integer x * Scale;             *)
(*   - a time point is an integer number of ticks, one tick being          *)
(*     1 / sample_rate seconds (t = tick / 44100);                         *)
(*   - a frequency is an integer number of centi-hertz (440.0 -> 44000);   *)
(*   - a note duration is an integer number of quarter beats.              *)
(* sin, arcsin(sin) and exp are computed by rational approximations on     *)
(* these integers; rounding is floor (\div).                               *)
(***************************************************************************)
EXTENDS Integers, Sequences, FiniteSets, TLC

\* Fixed-point resolution of samples, gains and amplitudes (1.0 = Scale).
Scale == 1000

\* Module.sample_rate, copied into every module.
module_sample_rate == 44100

\* AudioOutput.sample_rate; one tick of model time is 1 / sample_rate s.
sample_rate == 44100

\* Ticks of phase in one cycle: frequency (centi-Hz) * time (ticks).
CycleTicks == 100 * sample_rate

Abs(x) == IF x < 0 THEN -x ELSE x

Max2(a, b) == IF a >= b THEN a ELSE b

Min2(a, b) == IF a <= b THEN a ELSE b

\* np.zeros_like(time_array)
Zeros(t) == [i \in 1..Len(t) |-> 0]

\* np.max(np.abs(output)) of a non-empty block
RECURSIVE PeakFrom(_, _)
PeakFrom(s, i) ==
    IF i > Len(s) THEN 0 ELSE Max2(Abs(s[i]), PeakFrom(s, i + 1))

Peak(s) == PeakFrom(s, 1)

\* (a * b) % m without leaving 32-bit integers (a < 2^19, b < 2^17).
MulMod(a, b, m) ==
    ((((a * (b \div 128)) % m) * 128) + a * (b % 128)) % m

\* Phase of an oscillator at frequency f (centi-Hz) and time tick, as the
\* numerator of a fraction of one cycle over CycleTicks:
\* np.mod(2*pi*f*t, 2*pi) / (2*pi).
PhaseNum(f, tick) == MulMod(f, tick, CycleTicks)

\* The same phase in whole degrees.
PhaseDeg(f, tick) == (PhaseNum(f, tick) * 360) \div CycleTicks

\* np.sin at d degrees (Bhaskara's rational approximation), in fixed point.
SinDeg(d) ==
    LET h == d % 180
        v == (4 * Scale * h * (180 - h)) \div (40500 - h * (180 - h))
    IN  IF d % 360 < 180 THEN v ELSE -v

\* (2 / pi) * arcsin(sin(phase)) at d degrees: exact, piecewise linear.
TriDeg(d) ==
    IF d <= 90 THEN (Scale * d) \div 90
    ELSE IF d <= 270 THEN (Scale * (180 - d)) \div 90
    ELSE (Scale * (d - 360)) \div 90

\* np.exp(-note_time / 0.1) for note_time = x100 / 1000 seconds, i.e.
\* exp(-x) at x = x100 / 100, by 1 / (1 + x + x^2 / 2).
ExpNeg(x100) == (Scale * 20000) \div (20000 + 200 * x100 + x100 * x100)

\* ------------------------------------------------------------------------
\* Module objects.  A module is a record; a reference to another module is
\* the referenced record, and an absent reference is None.

None == [kind |-> "none"]

IsNone(m) == m.kind = "none"

\* FilterType
LOWPASS == "lowpass"

HIGHPASS == "highpass"

BANDPASS == "bandpass"

FilterType == {LOWPASS, HIGHPASS, BANDPASS}

SineOscillator(frequency, amplitude) ==
    [kind |-> "sine", base_frequency |-> frequency,
     base_amplitude |-> amplitude,
     freq_mod_input |-> None, amp_mod_input |-> None]

SquareOscillator(frequency, amplitude, duty_cycle) ==
    [kind |-> "square", base_frequency |-> frequency,
     base_amplitude |-> amplitude,
     duty_cycle |-> Max2(0, Min2(Scale, duty_cycle)),
     freq_mod_input |-> None, amp_mod_input |-> None,
     duty_mod_input |-> None]

TriangleOscillator(frequency, amplitude) ==
    [kind |-> "triangle", base_frequency |-> frequency,
     base_amplitude |-> amplitude,
     freq_mod_input |-> None, amp_mod_input |-> None]

VCA(input_module, cv_input) ==
    [kind |-> "vca", input_module |-> input_module, cv_input |-> cv_input,
     base_gain |-> Scale]

Filter(filter_type, cutoff_freq, input_module) ==
    [kind |-> "filter", filter_type |-> filter_type,
     cutoff_freq |-> cutoff_freq, input_module |-> input_module,
     resonance |-> Scale]

\* input_modules is the list of (module, gain) pairs.
Mixer(input_modules) == [kind |-> "mixer", input_modules |-> input_modules]

\* sequence is the list of (frequency, duration) pairs; step_duration is
\* 60 / bpm seconds and is kept as the bpm it is derived from.
Sequencer(bpm, sequence, output_module) ==
    [kind |-> "sequencer", bpm |-> bpm, sequence |-> sequence,
     output_module |-> output_module]

IsOscillator(m) == m.kind \in {"sine", "square", "triangle"}

\* Sequencer.NOTE_FREQUENCIES, in centi-Hz.
NOTE_FREQUENCIES ==
    [n \in {"C", "C#", "D", "D#", "E", "F", "F#", "G", "G#", "A", "A#", "B"} |->
        CASE n = "C" -> 26163 [] n = "C#" -> 27718 [] n = "D" -> 29366
          [] n = "D#" -> 31113 [] n = "E" -> 32963 [] n = "F" -> 34923
          [] n = "F#" -> 36999 [] n = "G" -> 39200 [] n = "G#" -> 41530
          [] n = "A" -> 44000 [] n = "A#" -> 46616 [] n = "B" -> 49388]

\* 2 ** (octave - 4) for octave >= 4
RECURSIVE Pow2(_)
Pow2(n) == IF n <= 0 THEN 1 ELSE 2 * Pow2(n - 1)

\* Sequencer.add_note(note + octave, duration)
add_note(m, note, octave, duration) ==
    [m EXCEPT !.sequence =
        Append(@, <<NOTE_FREQUENCIES[note] * Pow2(octave - 4), duration>>)]

\* Sequencer.set_output / VCA.set_input / Filter.set_input
set_output(m, module) == [m EXCEPT !.output_module = module]

\* Mixer.add_input
add_input(m, module, gain) ==
    [m EXCEPT !.input_modules = Append(@, <<module, gain>>)]

\* ------------------------------------------------------------------------
\* process.  A call yields a record:
\*   err   "" on return, else the name of the exception raised;
\*   out   the returned block (<<>> when raised);
\*   mod   the module (with the modules it references) after the call;
\*   trace one entry per process call made, in call order: the kind of the
\*         module called, its base_frequency at that moment (0 when it has
\*         none) and the time array it was given.

Called(m, t) ==
    <<[kind |-> m.kind,
       freq |-> IF IsOscillator(m) THEN m.base_frequency ELSE 0,
       t |-> t]>>

Raised(e, m, trace) == [err |-> e, out |-> <<>>, mod |-> m, trace |-> trace]

Returned(out, m, trace) == [err |-> "", out |-> out, mod |-> m, trace |-> trace]

\* What a modulation input contributes when nothing is connected.
Unconnected(m, value, t) ==
    [err |-> "", out |-> [i \in 1..Len(t) |-> value], mod |-> m, trace |-> <<>>]

RECURSIVE Process(_, _)

\* freq_mod = 1.0 unless freq_mod_input is connected
FreqMod(m, t) ==
    IF IsNone(m.freq_mod_input) THEN Unconnected(None, Scale, t)
    ELSE Process(m.freq_mod_input, t)

\* amp_mod = 1.0 unless amp_mod_input is connected
AmpMod(m, t) ==
    IF IsNone(m.amp_mod_input) THEN Unconnected(None, Scale, t)
    ELSE Process(m.amp_mod_input, t)

\* duty_mod = 0.0 unless duty_mod_input is connected
DutyMod(m, t) ==
    IF IsNone(m.duty_mod_input) THEN Unconnected(None, 0, t)
    ELSE Process(m.duty_mod_input, t)

\* frequency = base_frequency * (1 + freq_mod)
Frequency(m, fm) == (m.base_frequency * (Scale + fm)) \div Scale

\* amplitude = base_amplitude * amp_mod
Amplitude(m, am) == (m.base_amplitude * am) \div Scale

\* amplitude * np.sin(2 * np.pi * frequency * time_array), one sample
SineSample(m, fm, am, tick) ==
    (Amplitude(m, am) * SinDeg(PhaseDeg(Frequency(m, fm), tick))) \div Scale

\* amplitude * triangle, one sample
TriangleSample(m, fm, am, tick) ==
    (Amplitude(m, am) * TriDeg(PhaseDeg(Frequency(m, fm), tick))) \div Scale

\* np.where(np.mod(phase, 2*pi) / (2*pi) < duty, 1.0, -1.0), one sample
SquareWave(f, duty, tick) ==
    IF (PhaseNum(f, tick) \div 100) * Scale < duty * sample_rate
    THEN Scale ELSE -Scale

\* amplitude * square, one sample
SquareSample(m, fm, am, dm, tick) ==
    (Amplitude(m, am)
       * SquareWave(Frequency(m, fm),
                    Max2(0, Min2(Scale, m.duty_cycle + dm)), tick)) \div Scale

\* SineOscillator.process and TriangleOscillator.process
OscProcess(m, t) ==
    LET fmr == FreqMod(m, t)
        m1  == [m EXCEPT !.freq_mod_input = fmr.mod]
        amr == AmpMod(m1, t)
        m2  == [m1 EXCEPT !.amp_mod_input = amr.mod]
    IN  IF fmr.err # "" THEN Raised(fmr.err, m1, Called(m, t) \o fmr.trace)
        ELSE IF amr.err # ""
        THEN Raised(amr.err, m2, Called(m, t) \o fmr.trace \o amr.trace)
        ELSE Returned(
               [i \in 1..Len(t) |->
                   IF m.kind = "sine"
                   THEN SineSample(m, fmr.out[i], amr.out[i], t[i])
                   ELSE TriangleSample(m, fmr.out[i], amr.out[i], t[i])],
               m2, Called(m, t) \o fmr.trace \o amr.trace)

\* SquareOscillator.process
SquareProcess(m, t) ==
    LET fmr == FreqMod(m, t)
        m1  == [m EXCEPT !.freq_mod_input = fmr.mod]
        amr == AmpMod(m1, t)
        m2  == [m1 EXCEPT !.amp_mod_input = amr.mod]
        dmr == DutyMod(m2, t)
        m3  == [m2 EXCEPT !.duty_mod_input = dmr.mod]
    IN  IF fmr.err # "" THEN Raised(fmr.err, m1, Called(m, t) \o fmr.trace)
        ELSE IF amr.err # ""
        THEN Raised(amr.err, m2, Called(m, t) \o fmr.trace \o amr.trace)
        ELSE IF dmr.err # ""
        THEN Raised(dmr.err, m3,
                    Called(m, t) \o fmr.trace \o amr.trace \o dmr.trace)
        ELSE Returned(
               [i \in 1..Len(t) |->
                   SquareSample(m, fmr.out[i], amr.out[i], dmr.out[i], t[i])],
               m3, Called(m, t) \o fmr.trace \o amr.trace \o dmr.trace)

\* VCA.process as it would be with the control input pulled before the
\* signal input is looked at.
VCAProcessEager(m, t) ==
    LET cvr == IF IsNone(m.cv_input) THEN Unconnected(None, Scale, t)
               ELSE Process(m.cv_input, t)
    IN  IF IsNone(m.input_module)
        THEN Returned(Zeros(t), m, Called(m, t) \o cvr.trace)
        ELSE LET inr == Process(m.input_module, t)
             IN  Returned([i \in 1..Len(t) |-> (inr.out[i] * m.base_gain) \div Scale],
                          m, Called(m, t) \o cvr.trace \o inr.trace)

\* VCA.process
VCAProcess(m, t) ==
    IF IsNone(m.input_module) THEN Returned(Zeros(t), m, Called(m, t))
    ELSE
    LET inr == Process(m.input_module, t)
        m1  == [m EXCEPT !.input_module = inr.mod]
        cvr == IF IsNone(m.cv_input) THEN Unconnected(None, Scale, t)
               ELSE Process(m.cv_input, t)
        m2  == [m1 EXCEPT !.cv_input = cvr.mod]
        \* (cv_signal + 1) * 0.5 * base_gain, or base_gain without a CV input
        gain(i) == IF IsNone(m.cv_input) THEN m.base_gain
                   ELSE (((cvr.out[i] + Scale) \div 2) * m.base_gain) \div Scale
    IN  IF inr.err # "" THEN Raised(inr.err, m1, Called(m, t) \o inr.trace)
        ELSE IF cvr.err # ""
        THEN Raised(cvr.err, m2, Called(m, t) \o inr.trace \o cvr.trace)
        ELSE Returned([i \in 1..Len(t) |-> (inr.out[i] * gain(i)) \div Scale],
                      m2, Called(m, t) \o inr.trace \o cvr.trace)

\* alpha = dt / (1 / (2 * pi * cutoff_freq) + dt) with dt = 1 / sample_rate,
\* that is 2*pi*fc / (sample_rate + 2*pi*fc); pi is 355 / 113 and
\* cutoff_freq is in Hz.
Alpha(cutoff_freq) ==
    (710 * cutoff_freq * Scale)
        \div (113 * module_sample_rate + 710 * cutoff_freq)

\* One step of the lowpass loop: alpha * x[i] + (1 - alpha) * filtered[i-1]
LowpassStep(alpha, xi, yprev) ==
    (alpha * xi + (Scale - alpha) * yprev) \div Scale

\* One step of the highpass loop:
\* alpha * (filtered[i-1] + x[i] - x[i-1])
HighpassStep(alpha, xi, xprev, yprev) ==
    (alpha * (yprev + xi - xprev)) \div Scale

\* The first sample of a block: filtered[0] = input_signal[0].
FilterFirst(x) == x[1]

\* filtered[0..i-1] of a non-empty block x: np.zeros_like, the first sample,
\* and the loop of the filter's kind (none for BANDPASS).
RECURSIVE FilterUpTo(_, _, _, _)
FilterUpTo(filter_type, alpha, x, i) ==
    IF i = 1 THEN <<FilterFirst(x)>>
    ELSE LET y == FilterUpTo(filter_type, alpha, x, i - 1)
         IN  Append(y,
                CASE filter_type = LOWPASS ->
                       LowpassStep(alpha, x[i], y[i - 1])
                  [] filter_type = HIGHPASS ->
                       HighpassStep(alpha, x[i], x[i - 1], y[i - 1])
                  [] OTHER -> 0)

\* Filter.process
FilterProcess(m, t) ==
    IF IsNone(m.input_module) THEN Returned(Zeros(t), m, Called(m, t))
    ELSE
    LET inr == Process(m.input_module, t)
        m1  == [m EXCEPT !.input_module = inr.mod]
        tr  == Called(m, t) \o inr.trace
    IN  IF inr.err # "" THEN Raised(inr.err, m1, tr)
        ELSE IF Len(inr.out) = 0 THEN Raised("IndexError", m1, tr)
        ELSE Returned(FilterUpTo(m.filter_type, Alpha(m.cutoff_freq),
                                 inr.out, Len(inr.out)),
                      m1, tr)

\* The loop of Mixer.process from input i on: output += gain * process(t).
RECURSIVE MixLoop(_, _, _, _, _)
MixLoop(m, i, t, output, trace) ==
    IF i > Len(m.input_modules) THEN Returned(output, m, trace)
    ELSE
    LET r    == Process(m.input_modules[i][1], t)
        gain == m.input_modules[i][2]
        m1   == [m EXCEPT !.input_modules[i] = <<r.mod, gain>>]
    IN  IF r.err # "" THEN Raised(r.err, m1, trace \o r.trace)
        ELSE MixLoop(m1, i + 1, t,
                     [j \in 1..Len(t) |-> output[j] + (gain * r.out[j]) \div Scale],
                     trace \o r.trace)

\* Normalize as it would be without the test for a peak above 1.0.
NormalizeAlways(output) ==
    LET max_val == Peak(output)
    IN  IF max_val > 0
        THEN [j \in 1..Len(output) |-> (output[j] * Scale) \div max_val]
        ELSE output

\* output /= max_val when max_val > 1.0
Normalize(output) ==
    LET max_val == Peak(output)
    IN  IF max_val > Scale
        THEN [j \in 1..Len(output) |-> (output[j] * Scale) \div max_val]
        ELSE output

\* Mixer.process: np.max of an empty block raises ValueError.
MixerProcess(m, t) ==
    IF Len(m.input_modules) = 0 THEN Returned(Zeros(t), m, Called(m, t))
    ELSE
    LET s == MixLoop(m, 1, t, Zeros(t), Called(m, t))
    IN  IF s.err # "" THEN s
        ELSE IF Len(s.out) = 0 THEN Raised("ValueError", s.mod, s.trace)
        ELSE Returned(Normalize(s.out), s.mod, s.trace)

\* Sequencer times: with d quarter beats elapsed, note_start is
\* d * 60 / (4 * bpm) seconds; a tick t is compared with it on the common
\* denominator 4 * bpm * sample_rate.
TimeNum(m, tick) == tick * 4 * m.bpm

BeatNum(d) == d * 60 * sample_rate

\* note_indices as it would be with a closed window, t <= note_end.
NoteIndicesClosed(m, t, current_time, duration) ==
    LET In(i) == /\ TimeNum(m, t[i]) >= BeatNum(current_time)
                 /\ TimeNum(m, t[i]) <= BeatNum(current_time + duration)
    IN  SelectSeq([i \in 1..Len(t) |-> i], In)

\* note_indices = (t >= note_start) & (t < note_end), as the list of indices
NoteIndices(m, t, current_time, duration) ==
    LET In(i) == /\ TimeNum(m, t[i]) >= BeatNum(current_time)
                 /\ TimeNum(m, t[i]) < BeatNum(current_time + duration)
    IN  SelectSeq([i \in 1..Len(t) |-> i], In)

\* Retune as it would be with only the first oscillator of a mixer set.
RetuneFirstOnly(target, frequency) ==
    IF IsOscillator(target) THEN [target EXCEPT !.base_frequency = frequency]
    ELSE IF target.kind = "mixer"
    THEN [target EXCEPT !.input_modules =
            [i \in 1..Len(target.input_modules) |->
                IF /\ IsOscillator(target.input_modules[i][1])
                   /\ \A j \in 1..(i - 1) :
                         ~IsOscillator(target.input_modules[j][1])
                THEN <<[target.input_modules[i][1]
                          EXCEPT !.base_frequency = frequency],
                       target.input_modules[i][2]>>
                ELSE target.input_modules[i]]]
    ELSE target

\* The target after "Set frequency for this note".
Retune(target, frequency) ==
    IF IsOscillator(target) THEN [target EXCEPT !.base_frequency = frequency]
    ELSE IF target.kind = "mixer"
    THEN [target EXCEPT !.input_modules =
            [i \in 1..Len(target.input_modules) |->
                IF IsOscillator(target.input_modules[i][1])
                THEN <<[target.input_modules[i][1]
                          EXCEPT !.base_frequency = frequency],
                       target.input_modules[i][2]>>
                ELSE target.input_modules[i]]]
    ELSE target

\* envelope = np.exp(-note_time / 0.1), note_time = t - note_start
Envelope(m, tick, note_start) ==
    ExpNeg((((TimeNum(m, tick) - BeatNum(note_start)) \div (4 * m.bpm)) * 1000)
              \div sample_rate)

\* The note loop of Sequencer.process from step k on.
RECURSIVE SeqLoop(_, _, _, _, _, _)
SeqLoop(m, k, t, current_time, output, trace) ==
    IF k > Len(m.sequence) THEN Returned(output, m, trace)
    ELSE
    LET frequency == m.sequence[k][1]
        duration  == m.sequence[k][2]
        idx       == NoteIndices(m, t, current_time, duration)
        target    == Retune(m.output_module, frequency)
        r         == Process(target, [j \in 1..Len(idx) |-> t[idx[j]]])
        m1        == [m EXCEPT !.output_module = r.mod]
        note(j)   == (r.out[j] * Envelope(m, t[idx[j]], current_time)) \div Scale
    IN  IF Len(idx) = 0
        THEN SeqLoop(m, k + 1, t, current_time + duration, output, trace)
        ELSE IF r.err # "" THEN Raised(r.err, m1, trace \o r.trace)
        ELSE SeqLoop(m1, k + 1, t, current_time + duration,
                     [i \in 1..Len(t) |->
                        IF \E j \in 1..Len(idx) : idx[j] = i
                        THEN note(CHOOSE j \in 1..Len(idx) : idx[j] = i)
                        ELSE output[i]],
                     trace \o r.trace)

\* Sequencer.process
SeqProcess(m, t) ==
    IF IsNone(m.output_module) THEN Returned(Zeros(t), m, Called(m, t))
    ELSE SeqLoop(m, 1, t, 0, Zeros(t), Called(m, t))

\* module.process(time_array), by the class of the module
Process(m, t) ==
    CASE m.kind \in {"sine", "triangle"} -> OscProcess(m, t)
      [] m.kind = "square" -> SquareProcess(m, t)
      [] m.kind = "vca" -> VCAProcess(m, t)
      [] m.kind = "filter" -> FilterProcess(m, t)
      [] m.kind = "mixer" -> MixerProcess(m, t)
      [] m.kind = "sequencer" -> SeqProcess(m, t)

\* ------------------------------------------------------------------------
\* Bounds of the model.

\* Longest time array given to a module under test.
MaxLen == 4

\* Largest number of frames the device asks of one callback.
MaxFrames == 2

\* Largest value of the streaming cursor, in ticks.
MaxCursor == 4

\* Largest duration given to start, in half ticks (1 / (2 * sample_rate) s).
MaxDuration == 5

\* Largest number of streams opened in one run.
MaxStreams == 2

\* ------------------------------------------------------------------------
\* State.

VARIABLES
    \* AudioOutput
    input_module,   \* the root module, or None
    stream,         \* the stream handle: 0 for None, else the stream's number
    current_time,   \* the streaming cursor in ticks; -1 before it is first set
    \* the sound device
    streams,        \* per stream opened: its state and its stop/close counts
    \* what the last AudioOutput operation or callback did
    ev,
    \* the time points pulled and samples delivered by the callbacks since
    \* current_time was last set to 0
    session_t,
    session_out,
    \* a module graph under test, and its last two process calls
    patch,
    last,
    prev

audio_vars == <<input_module, stream, current_time, streams, ev,
                session_t, session_out>>

graph_vars == <<patch, last, prev>>

vars == <<input_module, stream, current_time, streams, ev,
          session_t, session_out, patch, last, prev>>

\* start + stride * [0, 1, ..., n-1]: a strictly increasing time array
Ramp(start, stride, n) == [i \in 1..n |-> start + stride * (i - 1)]

\* The time array as it would be without the cursor added.
ArangeFromZero(frames, offset) == Ramp(0, 1, frames)

\* np.arange(frames) / sample_rate + offset, in ticks
Arange(frames, offset) == Ramp(offset, 1, frames)

A4 == NOTE_FREQUENCIES["A"]

\* The roots an AudioOutput is given.
Roots == {SineOscillator(A4, Scale)}

\* ------------------------------------------------------------------------
\* AudioOutput.  ev records the last operation: its name and arguments, the
\* exception it raised, the device calls it made, the time arrays it pulled
\* the root module with, and the fields as they were when it was called.

NoEvent ==
    [op |-> "init", duration |-> 0, frames |-> 0, raised |-> "",
     device |-> <<>>, pulled |-> <<>>, input_before |-> None,
     stream_before |-> 0, current_time_before |-> -1, streams_before |-> <<>>]

Event(op, duration, frames, raised, device, pulled) ==
    [op |-> op, duration |-> duration, frames |-> frames, raised |-> raised,
     device |-> device, pulled |-> pulled, input_before |-> input_module,
     stream_before |-> stream, current_time_before |-> current_time,
     streams_before |-> streams]

\* AudioOutput.__init__(input_module), with no module graph under test
AudioInit ==
    /\ input_module \in Roots \cup {None}
    /\ stream = 0
    /\ current_time = -1
    /\ streams = <<>>
    /\ ev = NoEvent
    /\ session_t = <<>>
    /\ session_out = <<>>
    /\ patch = None
    /\ last = [called |-> FALSE, t |-> <<>>, err |-> "", out |-> <<>>,
               trace |-> <<>>, before |-> None]
    /\ prev = last

\* AudioOutput.set_input(module)
SetInput(module) ==
    /\ input_module' = module
    /\ ev' = Event("set_input", 0, 0, "", <<>>, <<>>)
    /\ UNCHANGED <<stream, current_time, streams, session_t, session_out>>
    /\ UNCHANGED graph_vars

\* start as it would be with the test for a root made after the cursor is
\* set and the stream is created.
StartNoInputLate(duration) ==
    /\ IsNone(input_module)
    /\ current_time' = 0
    /\ ev' = Event("start", duration, 0, "ValueError", <<"OutputStream">>, <<>>)
    /\ UNCHANGED <<input_module, stream, streams, session_t, session_out>>
    /\ UNCHANGED graph_vars

\* start: raise ValueError("No input module connected")
StartNoInput(duration) ==
    /\ IsNone(input_module)
    /\ ev' = Event("start", duration, 0, "ValueError", <<>>, <<>>)
    /\ UNCHANGED <<input_module, stream, current_time, streams,
                   session_t, session_out>>
    /\ UNCHANGED graph_vars

\* start, duration == 0: set the cursor, open a stream and start it
StartStream ==
    /\ ~IsNone(input_module)
    /\ Len(streams) < MaxStreams
    /\ current_time' = 0
    /\ streams' = Append(streams, [state |-> "started", stops |-> 0, closes |-> 0])
    /\ stream' = Len(streams) + 1
    /\ ev' = Event("start", 0, 0, "", <<"OutputStream", "stream.start">>, <<>>)
    /\ session_t' = <<>>
    /\ session_out' = <<>>
    /\ UNCHANGED input_module
    /\ UNCHANGED graph_vars

\* The frame count as it would be rounded to the nearest tick.
FramesOfRounded(duration) == (duration + 1) \div 2

\* int(duration * self.sample_rate), duration in half ticks
FramesOf(duration) == duration \div 2

\* start, duration != 0: render one block, play it and wait
StartBounded(duration) ==
    /\ ~IsNone(input_module)
    /\ duration # 0
    /\ LET t == Arange(FramesOf(duration), 0)
           r == Process(input_module, t)
       IN  /\ input_module' = r.mod
           /\ ev' = IF r.err # ""
                    THEN Event("start", duration, 0, r.err, <<>>, <<t>>)
                    ELSE Event("start", duration, 0, "",
                               <<"play", r.out, sample_rate, "wait">>, <<t>>)
    /\ UNCHANGED <<stream, current_time, streams, session_t, session_out>>
    /\ UNCHANGED graph_vars

\* AudioOutput.start(duration)
Start(duration) ==
    \/ StartNoInput(duration)
    \/ duration = 0 /\ StartStream
    \/ StartBounded(duration)

\* stop as it would be without self.stream = None.
StopKeepsHandle ==
    /\ IF stream # 0
       THEN /\ streams' = [streams EXCEPT ![stream] =
                             [state |-> "closed", stops |-> @.stops + 1,
                              closes |-> @.closes + 1]]
            /\ ev' = Event("stop", 0, 0, "", <<"stream.stop", "stream.close">>, <<>>)
       ELSE /\ UNCHANGED streams
            /\ ev' = Event("stop", 0, 0, "", <<>>, <<>>)
    /\ UNCHANGED <<input_module, stream, current_time, session_t, session_out>>
    /\ UNCHANGED graph_vars

\* AudioOutput.stop()
Stop ==
    /\ IF stream # 0
       THEN /\ streams' = [streams EXCEPT ![stream] =
                             [state |-> "closed", stops |-> @.stops + 1,
                              closes |-> @.closes + 1]]
            /\ stream' = 0
            /\ ev' = Event("stop", 0, 0, "", <<"stream.stop", "stream.close">>, <<>>)
       ELSE /\ UNCHANGED <<streams, stream>>
            /\ ev' = Event("stop", 0, 0, "", <<>>, <<>>)
    /\ UNCHANGED <<input_module, current_time, session_t, session_out>>
    /\ UNCHANGED graph_vars

\* The callback of a started stream, called by the device with a frame count
\* (a status flag is only printed).
Callback(s, frames) ==
    /\ streams[s].state = "started"
    /\ current_time + frames <= MaxCursor
    /\ IF ~IsNone(input_module)
       THEN LET t == Arange(frames, current_time)
                r == Process(input_module, t)
            IN  /\ input_module' = r.mod
                /\ IF r.err # ""
                   THEN /\ ev' = Event("callback", 0, frames, r.err, <<>>, <<t>>)
                        /\ UNCHANGED <<current_time, session_t, session_out>>
                   ELSE /\ ev' = Event("callback", 0, frames, "",
                                       <<"outdata", r.out>>, <<t>>)
                        /\ current_time' = current_time + frames
                        /\ session_t' = session_t \o t
                        /\ session_out' = session_out \o r.out
       ELSE /\ ev' = Event("callback", 0, frames, "", <<>>, <<>>)
            /\ UNCHANGED <<input_module, current_time, session_t, session_out>>
    /\ UNCHANGED <<stream, streams>>
    /\ UNCHANGED graph_vars

NextAudio ==
    \/ \E module \in Roots \cup {None} : SetInput(module)
    \/ \E duration \in 0..MaxDuration : Start(duration)
    \/ Stop
    \/ \E s \in 1..Len(streams), frames \in 1..MaxFrames : Callback(s, frames)

\* ------------------------------------------------------------------------
\* Module graphs under test.

NoCall ==
    [called |-> FALSE, t |-> <<>>, err |-> "", out |-> <<>>, trace |-> <<>>,
     before |-> None]

Call(m, t, r) ==
    [called |-> TRUE, t |-> t, err |-> r.err, out |-> r.out,
     trace |-> r.trace, before |-> m]

\* One beat at 120 BPM, in ticks.
Beat == (60 * sample_rate) \div 120

\* The time arrays given to process.
TimeArrays ==
    {Ramp(start, 1, n) :
        start \in {0, 2, Beat - 3, Beat - 1, 2 * Beat - 1}, n \in 0..MaxLen}
    \cup {Ramp(1, Beat \div 2, n) : n \in 1..(MaxLen + 1)}
    \cup {Ramp(0, sample_rate \div 4, 4)}

Sine440 == SineOscillator(A4, Scale)

Sine660 == SineOscillator(NOTE_FREQUENCIES["E"] * 2, Scale)

Square440 == SquareOscillator(A4, Scale, Scale \div 2)

\* A 2 Hz control oscillator at amplitude 1.0.
Lfo == SineOscillator(200, Scale)

\* Sequencer(bpm=120) with A4 then A5, one beat each (4 quarter beats).
TwoNotes(target) ==
    add_note(add_note(Sequencer(120, <<>>, target), "A", 4, 4), "A", 5, 4)

\* Sequencer(bpm=120) with C4 for half a beat, then E5 for one beat.
ShortLong(target) ==
    add_note(add_note(Sequencer(120, <<>>, target), "C", 4, 2), "E", 5, 4)

Mix(a, b, gain) == add_input(add_input(Mixer(<<>>), a, gain), b, gain)

\* SquareOscillator(frequency=1, duty_cycle=0.5)
Square1 == SquareOscillator(100, Scale, Scale \div 2)

\* Oscillators pulled on their own.
Bare == {Square1, Sine440}

\* Modules without a signal input.
Unfed ==
    {VCA(None, None), VCA(None, Lfo),
     Filter(LOWPASS, 1000, None), Filter(BANDPASS, 1000, None),
     Mixer(<<>>), Sequencer(120, <<>>, None), TwoNotes(None)}

\* Filters, mixers and VCAs over oscillators.
Fed ==
    {Filter(LOWPASS, 1000, Sine440), Filter(HIGHPASS, 1000, Sine440),
     Filter(BANDPASS, 1000, Sine440), Filter(LOWPASS, 2000, Square440),
     Mix(Sine440, Sine660, Scale), Mix(Sine440, Square440, Scale),
     Mix(Sine440, Sine660, (3 * Scale) \div 10),
     add_input(Mixer(<<>>), Sine440, 2 * Scale),
     VCA(Sine440, None), VCA(Sine440, Lfo)}

\* Sequencers over a target.
Sequenced ==
    {TwoNotes(Sine440), TwoNotes(Square440), ShortLong(Sine440),
     TwoNotes(Mix(Sine440, Square440, Scale)),
     TwoNotes(Mix(Sine440, VCA(Sine660, None), Scale)),
     TwoNotes(VCA(Sine440, None)), TwoNotes(Filter(LOWPASS, 1000, Sine440)),
     TwoNotes(Mix(VCA(Sine440, None), Filter(LOWPASS, 1000, Sine660), Scale)),
     TwoNotes(Mixer(<<>>))}

Patches == Bare \cup Unfed \cup Fed \cup Sequenced

\* A module graph and no AudioOutput activity.
GraphInit ==
    /\ patch \in Patches
    /\ last = NoCall
    /\ prev = NoCall
    /\ input_module = None
    /\ stream = 0
    /\ current_time = -1
    /\ streams = <<>>
    /\ ev = NoEvent
    /\ session_t = <<>>
    /\ session_out = <<>>

\* t is the block of consecutive ticks that follows the block of call c.
Continues(c, t) ==
    /\ c.called /\ c.err = ""
    /\ Len(c.t) > 0 /\ Len(t) > 0
    /\ c.t = Ramp(c.t[1], 1, Len(c.t))
    /\ t = Ramp(c.t[Len(c.t)] + 1, 1, Len(t))

\* patch.process(t); prev keeps the call before it when t continues its block
Pull(t) ==
    LET r == Process(patch, t)
    IN  /\ prev' = IF Continues(last, t) THEN last ELSE NoCall
        /\ last' = Call(patch, t, r)
        /\ patch' = r.mod
        /\ UNCHANGED audio_vars

NextGraph == \E t \in TimeArrays : Pull(t)

\* ------------------------------------------------------------------------
\* Specifications.

\* An AudioOutput over a root, with the device calling back.
SpecAudio == AudioInit /\ [][NextAudio]_vars

\* A module graph pulled block by block.
SpecGraph == GraphInit /\ [][NextGraph]_vars

\* ------------------------------------------------------------------------
\* Properties of AudioOutput, stated for SpecAudio.

\* C1: start(duration), for any duration, called with no root module
\* attached raises the configuration error and does nothing else: no device
\* call is made, the root is not pulled, and the stream handle, the device's
\* streams and the cursor are as they were.
C1_StartWithoutRootIsRejected ==
    (ev.op = "start" /\ IsNone(ev.input_before)) =>
        /\ ev.raised = "ValueError"
        /\ ev.device = <<>>
        /\ ev.pulled = <<>>
        /\ stream = ev.stream_before
        /\ streams = ev.streams_before
        /\ current_time = ev.current_time_before

\* start(0) and a bounded start have both been rejected for want of a root,
\* here with a stream still open from an earlier start.
C1_Witness ==
    /\ ev.op = "start" /\ IsNone(ev.input_before) /\ ev.raised = "ValueError"
    /\ ev.duration > 0
    /\ ev.stream_before # 0

\* C2 (state part): stop never raises and leaves no stream handle; it stops
\* and closes the stream it held, and makes no device call when it held
\* none; no stream is ever stopped or closed twice.
C2_StopState ==
    /\ \A s \in 1..Len(streams) : streams[s].stops <= 1 /\ streams[s].closes <= 1
    /\ ev.op = "stop" =>
        /\ ev.raised = ""
        /\ stream = 0
        /\ IF ev.stream_before # 0
           THEN /\ ev.device = <<"stream.stop", "stream.close">>
                /\ streams[ev.stream_before].state = "closed"
                /\ ev.streams_before[ev.stream_before].state = "started"
           ELSE ev.device = <<>> /\ streams = ev.streams_before

\* C2 (step part): a stop that directly follows a stop changes nothing.
C2_SecondStopChangesNothing ==
    (ev.op = "stop" /\ ev'.op = "stop") =>
        /\ ev'.device = <<>>
        /\ UNCHANGED <<input_module, stream, current_time, streams>>

\* C2: stop is idempotent and safe in every reachable state.
C2_StopIsIdempotent == []C2_StopState /\ [][C2_SecondStopChangesNothing]_vars

\* stop has been called with no stream held, after an earlier stop closed
\* the stream opened by start(0).
C2_Witness ==
    /\ ev.op = "stop" /\ ev.stream_before = 0 /\ ev.device = <<>>
    /\ Len(streams) = 1 /\ streams[1].state = "closed"

\* C3: start(0) sets the cursor to 0; a callback with n frames pulls the root
\* on cursor + [0..n-1] and advances the cursor by n, never backwards; the
\* time points pulled since the cursor was set are those of one time array
\* from 0 of the total frame count, and the samples delivered are those of
\* one render of the root over that array.
C3_StreamingIsPhaseContinuous ==
    /\ (ev.op = "start" /\ ev.duration = 0 /\ ev.raised = "") => current_time = 0
    /\ (ev.op = "callback" /\ ~IsNone(ev.input_before)) =>
        /\ ev.pulled = <<[i \in 1..ev.frames |-> ev.current_time_before + (i - 1)]>>
        /\ current_time = ev.current_time_before + ev.frames
        /\ current_time >= ev.current_time_before
    /\ current_time >= 0 =>
        /\ Len(session_t) = current_time
        /\ session_t = [i \in 1..current_time |-> i - 1]
        /\ \A root \in Roots :
              session_out = Process(root, [i \in 1..current_time |-> i - 1]).out

\* Two callbacks of N = 2 frames each have been served in one session.
C3_Witness ==
    /\ ev.op = "callback" /\ ev.frames = 2 /\ ev.current_time_before = 2
    /\ Len(session_out) = 4
    /\ session_out[4] # 0

RECURSIVE C5_StepStart(_, _)
C5_StepStart(sequence, k) ==
    IF k <= 1 THEN 0 ELSE C5_StepStart(sequence, k - 1) + sequence[k - 1][2]

\* tick / 44100 s lies in [start_k, start_k + d_k * 60 / bpm)
C5_InStep(m, k, tick) ==
    /\ tick * 4 * m.bpm >= C5_StepStart(m.sequence, k) * 60 * 44100
    /\ tick * 4 * m.bpm < C5_StepStart(m.sequence, k + 1) * 60 * 44100

\* The calls of the target that the steps from k on make: one per step whose
\* window holds a time point, at that step's frequency, over those points.
RECURSIVE C5_Pulls(_, _, _)
C5_Pulls(m, t, k) ==
    IF k > Len(m.sequence) THEN <<>>
    ELSE LET In(tick) == C5_InStep(m, k, tick)
             sub == SelectSeq(t, In)
         IN  (IF sub = <<>> THEN <<>>
              ELSE <<[kind |-> m.output_module.kind, freq |-> m.sequence[k][1],
                      t |-> sub]>>)
             \o C5_Pulls(m, t, k + 1)

\* C5: a Sequencer with a target yields exactly zero at every time point
\* outside all step windows; over an oscillator it renders every time point
\* of step k's half-open window with the oscillator at frequency f_k (times
\* the note's envelope) and pulls the oscillator once per step, at f_k, over
\* exactly the points of that step's window.
C5_SequencerNoteWindows ==
    (/\ last.called
     /\ last.before.kind = "sequencer"
     /\ ~IsNone(last.before.output_module)) =>
        LET m == last.before
            t == last.t
            Steps(i) == {k \in 1..Len(m.sequence) : C5_InStep(m, k, t[i])}
            At(k, i) ==
                (Process([m.output_module EXCEPT !.base_frequency = m.sequence[k][1]],
                         <<t[i]>>).out[1]
                   * Envelope(m, t[i], C5_StepStart(m.sequence, k))) \div Scale
        IN  /\ last.err = ""
            /\ Len(last.out) = Len(t)
            /\ \A i \in 1..Len(t) :
                  /\ Cardinality(Steps(i)) <= 1
                  /\ Steps(i) = {} => last.out[i] = 0
            /\ IsOscillator(m.output_module) =>
                  /\ \A i \in 1..Len(t) :
                        \A k \in Steps(i) : last.out[i] = At(k, i)
                  /\ Tail(last.trace) = C5_Pulls(m, t, 1)

\* One call over points of the first note, of the second note and past the
\* end of the sequence, with audible samples in both notes.
C5_Witness ==
    /\ last.called /\ last.before.kind = "sequencer"
    /\ last.before.output_module.kind = "sine"
    /\ Len(last.before.sequence) = 2
    /\ \E i, j, l \in 1..Len(last.t) :
          /\ C5_InStep(last.before, 1, last.t[i]) /\ last.out[i] # 0
          /\ C5_InStep(last.before, 2, last.t[j]) /\ last.out[j] # 0
          /\ last.t[l] * 4 * last.before.bpm
                >= C5_StepStart(last.before.sequence, 3) * 60 * 44100
          /\ last.out[l] = 0

\* The target has no frequency of its own and holds no oscillator.
C6_NotRetunable(target) ==
    /\ ~IsNone(target)
    /\ ~IsOscillator(target)
    /\ target.kind = "mixer" =>
          \A i \in 1..Len(target.input_modules) :
              ~IsOscillator(target.input_modules[i][1])

\* C6: when a step's window holds a time point and the Sequencer's target
\* cannot be retuned, process reports an error.
C6_RetuneOfUntunableTargetIsReported ==
    (/\ last.called
     /\ last.before.kind = "sequencer"
     /\ C6_NotRetunable(last.before.output_module)
     /\ \E i \in 1..Len(last.t), k \in 1..Len(last.before.sequence) :
           C5_InStep(last.before, k, last.t[i])) =>
        last.err # ""

\* C7: a lowpass or highpass Filter called on a block and then on the block
\* of the ticks that follow returns the samples of one call on both blocks.
C7_FilterKeepsStateAcrossCalls ==
    (/\ last.called /\ prev.called
     /\ last.before.kind = "filter"
     /\ last.before.filter_type \in {LOWPASS, HIGHPASS}
     /\ ~IsNone(last.before.input_module)
     /\ last.err = "" /\ prev.err = "") =>
        prev.out \o last.out = Process(prev.before, prev.t \o last.t).out

\* x[0] followed by zeros, for the input block x
C8_FirstThenZeros(x) == [i \in 1..Len(x) |-> IF i = 1 THEN x[1] ELSE 0]

\* C8: a BANDPASS Filter with an input, given a block whose input signal is
\* not itself its first sample followed by zeros, either raises or returns
\* something other than the first input sample followed by zeros.
C8_BandpassIsNotSilentlyDegraded ==
    (/\ last.called
     /\ last.before.kind = "filter"
     /\ last.before.filter_type = BANDPASS
     /\ ~IsNone(last.before.input_module)
     /\ Len(last.t) >= 2) =>
        LET x == Process(last.before.input_module, last.t).out
        IN  x # C8_FirstThenZeros(x) =>
                (last.err # "" \/ last.out # C8_FirstThenZeros(x))

\* The gain-weighted sum of the inputs' blocks at sample j, inputs i and on.
RECURSIVE C9_SumFrom(_, _, _, _)
C9_SumFrom(m, t, i, j) ==
    IF i > Len(m.input_modules) THEN 0
    ELSE (m.input_modules[i][2] * Process(m.input_modules[i][1], t).out[j])
            \div Scale
         + C9_SumFrom(m, t, i + 1, j)

C9_Sum(m, t) == [j \in 1..Len(t) |-> C9_SumFrom(m, t, 1, j)]

\* The block out is what Mixer.process owes for the mixer m and the array t.
C9_Normalized(m, t, err, out) ==
    LET sum  == C9_Sum(m, t)
        peak == Peak(sum)
    IN  /\ err = ""
        /\ Len(out) = Len(t)
        /\ Peak(out) <= Scale
        /\ IF peak > Scale
           THEN /\ Peak(out) = Scale
                /\ \A j \in 1..Len(t) :
                      /\ out[j] * peak <= sum[j] * Scale
                      /\ sum[j] * Scale < (out[j] + 1) * peak
           ELSE out = sum

C9_MixerCall ==
    /\ last.called
    /\ last.before.kind = "mixer"
    /\ Len(last.before.input_modules) > 0

\* C9: for every block, Mixer.process returns the gain-weighted sum of its
\* inputs' blocks, scaled uniformly to a peak of exactly 1.0 when the sum's
\* peak exceeds 1.0 and unchanged otherwise, so that the peak of the output
\* is at most 1.0.
C9_MixerNormalizesEveryBlock ==
    C9_MixerCall => C9_Normalized(last.before, last.t, last.err, last.out)

\* The same on the blocks that have a sample; on the empty block, np.max
\* raises ValueError.
C9_MixerNormalizesNonEmptyBlocks ==
    C9_MixerCall =>
        IF Len(last.t) > 0
        THEN C9_Normalized(last.before, last.t, last.err, last.out)
        ELSE last.err = "ValueError"

\* A block whose sum peaks above 1.0 came back scaled to a peak of 1.0, with
\* a sample inside the block scaled down along with it.
C9_NormalizedBlockReached ==
    /\ C9_MixerCall /\ Len(last.t) > 1
    /\ Peak(C9_Sum(last.before, last.t)) > Scale
    /\ Peak(last.out) = Scale
    /\ \E j \in 1..Len(last.t) : 0 < last.out[j] /\ last.out[j] < Scale

\* The module has no signal input: a VCA or Filter without input module, a
\* Mixer without inputs, a Sequencer without target.
C10_Unfed(m) ==
    CASE m.kind \in {"vca", "filter"} -> IsNone(m.input_module)
      [] m.kind = "mixer" -> Len(m.input_modules) = 0
      [] m.kind = "sequencer" -> IsNone(m.output_module)
      [] OTHER -> FALSE

\* C10: process of a module without signal input returns, for every time
\* array, a block of zeros of the array's length; it does not raise, calls
\* no other module and leaves the module as it was.
C10_AbsentInputYieldsSilence ==
    (last.called /\ C10_Unfed(last.before)) =>
        /\ last.err = ""
        /\ Len(last.out) = Len(last.t)
        /\ \A i \in 1..Len(last.t) : last.out[i] = 0
        /\ Len(last.trace) = 1
        /\ last.trace[1].kind = last.before.kind
        /\ patch = last.before

\* A VCA with a control input but no signal input has returned silence for
\* a block of several samples.
C10_Witness ==
    /\ last.called /\ last.before.kind = "vca"
    /\ IsNone(last.before.input_module) /\ ~IsNone(last.before.cv_input)
    /\ Len(last.t) = 3 /\ last.out = <<0, 0, 0>>

\* C11: Square(frequency=1, duty_cycle=0.5) without modulation, sampled at
\* points of one period of its nominal frequency (0 <= t < 1 s), is +1 at
\* every point before 0.5 s and -1 at every point from 0.5 s on.
C11_SquareSplitsAtMidpoint ==
    (/\ last.called
     /\ last.before = SquareOscillator(100, Scale, Scale \div 2)
     /\ \A i \in 1..Len(last.t) : 0 <= last.t[i] /\ last.t[i] < 44100) =>
        /\ last.err = ""
        /\ Len(last.out) = Len(last.t)
        /\ \A i \in 1..Len(last.t) :
              last.out[i] = IF 2 * last.t[i] < 44100 THEN Scale ELSE -Scale

\* The mixer with every oscillator among its inputs at frequency f and every
\* other input as it is.
C12_AllOscillatorsAt(mixer, f) ==
    [mixer EXCEPT !.input_modules =
        [i \in 1..Len(mixer.input_modules) |->
            IF mixer.input_modules[i][1].kind \in {"sine", "square", "triangle"}
            THEN <<[mixer.input_modules[i][1] EXCEPT !.base_frequency = f],
                   mixer.input_modules[i][2]>>
            ELSE mixer.input_modules[i]]]

\* The time points of t in the window of step k.
C12_Window(m, t, k) ==
    LET In(tick) == C5_InStep(m, k, tick)
    IN  SelectSeq(t, In)

\* The steps whose window holds a time point of t.
C12_Sounding(m, t) ==
    {k \in 1..Len(m.sequence) : C12_Window(m, t, k) # <<>>}

\* The calls made for the steps from k on: for every sounding step, those of
\* the mixer rendered with all its oscillators at that step's frequency.
RECURSIVE C12_Calls(_, _, _)
C12_Calls(m, t, k) ==
    IF k > Len(m.sequence) THEN <<>>
    ELSE (IF k \in C12_Sounding(m, t)
          THEN Process(C12_AllOscillatorsAt(m.output_module, m.sequence[k][1]),
                       C12_Window(m, t, k)).trace
          ELSE <<>>)
         \o C12_Calls(m, t, k + 1)

C12_Max(S) == CHOOSE k \in S : \A j \in S : j <= k

\* C12: a Sequencer over a Mixer renders every sounding step with every
\* oscillator input of the mixer at the step's frequency, so no oscillator
\* input is pulled at another frequency; afterwards the oscillator inputs
\* hold the frequency of the last sounding step and the other inputs are as
\* they were (the mixer is as it was when no step sounded).
C12_MixerChildrenAreRetunedTogether ==
    (/\ last.called
     /\ last.before.kind = "sequencer"
     /\ last.before.output_module.kind = "mixer") =>
        LET m == last.before
            t == last.t
            sounding == C12_Sounding(m, t)
        IN  /\ last.err = ""
            /\ Tail(last.trace) = C12_Calls(m, t, 1)
            /\ patch.output_module =
                  IF sounding = {} THEN m.output_module
                  ELSE C12_AllOscillatorsAt(m.output_module,
                                            m.sequence[C12_Max(sounding)][1])

\* Both notes sounded in one call over a mixer of a sine and a VCA: the sine
\* was pulled at 440 Hz and at 880 Hz and holds 880 Hz, the oscillator behind
\* the VCA was pulled at its own 659.26 Hz twice and still holds it.
C12_Witness ==
    /\ last.called /\ last.before.kind = "sequencer"
    /\ last.before.output_module = Mix(Sine440, VCA(Sine660, None), Scale)
    /\ C12_Sounding(last.before, last.t) = {1, 2}
    /\ patch.output_module.input_modules[1][1].base_frequency = 88000
    /\ patch.output_module.input_modules[2][1].input_module.base_frequency = 65926
    /\ \E i, j \in 1..Len(last.trace) :
          /\ i < j
          /\ last.trace[i].kind = "sine" /\ last.trace[i].freq = 44000
          /\ last.trace[j].kind = "sine" /\ last.trace[j].freq = 88000

\* C13: at most one stream opened by the AudioOutput is started at any time,
\* none is started once stop has returned, and a start(0) made while a
\* stream is started neither opens another stream nor sets the cursor back.
C13_AtMostOneStreamOpen ==
    /\ Cardinality({s \in 1..Len(streams) : streams[s].state = "started"}) <= 1
    /\ ev.op = "stop" =>
          \A s \in 1..Len(streams) : streams[s].state # "started"
    /\ (/\ ev.op = "start" /\ ev.duration = 0 /\ ev.raised = ""
        /\ \E s \in 1..Len(ev.streams_before) :
              ev.streams_before[s].state = "started") =>
          /\ Len(streams) = Len(ev.streams_before)
          /\ current_time >= ev.current_time_before

=============================================================================
